---------------------------- MODULE Spec2Model ----------------------------
(***************************************************************************)
(* A model of NeoChessBoard.js: the position codec (parseFEN, boardToFEN), *)
(* the fallback rules engine LightRules (movesFrom, move) and the          *)
(* Chessboard that drives it (Chessboard.move).                            *)
(*                                                                         *)
(* JavaScript values are modelled as follows.  A one-character string is a *)
(* TLA+ string of length one ("K"); every longer string (a square label, a *)
(* castling field, a whole position record) is a sequence of such          *)
(* characters (<<"e", "2">>), so that indexing, splitting and replacing    *)
(* are computed as the code computes them.  null and undefined are the     *)
(* values Null and Undefined.  An array indexed from 0 is a function on    *)
(* 0..n-1 where the code indexes it by computed coordinates (the board),   *)
(* and a sequence where the code only iterates over it.                    *)
(***************************************************************************)
EXTENDS Integers, Sequences, FiniteSets, TLC

Null == "null"
Undefined == "undefined"

(* parseInt's result on a text that does not start with a digit. *)
NaN == 0 - 1

FILES == << "a", "b", "c", "d", "e", "f", "g", "h" >>
RANKS == << "1", "2", "3", "4", "5", "6", "7", "8" >>

DIGITS == << "0", "1", "2", "3", "4", "5", "6", "7", "8", "9" >>
LOWERCASE == << "a", "b", "c", "d", "e", "f", "g", "h", "i", "j", "k", "l", "m",
               "n", "o", "p", "q", "r", "s", "t", "u", "v", "w", "x", "y", "z" >>
UPPERCASE == << "A", "B", "C", "D", "E", "F", "G", "H", "I", "J", "K", "L", "M",
               "N", "O", "P", "Q", "R", "S", "T", "U", "V", "W", "X", "Y", "Z" >>

(* Array.prototype.indexOf / String.prototype.indexOf on a sequence of     *)
(* characters: the 0-based index of the first occurrence at or after the   *)
(* 1-based position i, or -1.                                              *)
RECURSIVE indexFrom(_, _, _)
indexFrom(seq, x, i) ==
  IF i > Len(seq) THEN 0 - 1
  ELSE IF seq[i] = x THEN i - 1
  ELSE indexFrom(seq, x, i + 1)

indexOf(seq, x) == indexFrom(seq, x, 1)

includes(seq, x) == \E i \in 1..Len(seq) : seq[i] = x

(* The letters' case mappings, as tables. *)
UPPER_OF == [c \in {LOWERCASE[i] : i \in 1..26} |-> UPPERCASE[indexOf(LOWERCASE, c) + 1]]
LOWER_OF == [c \in {UPPERCASE[i] : i \in 1..26} |-> LOWERCASE[indexOf(UPPERCASE, c) + 1]]

toUpperCase(c) == IF c \in DOMAIN UPPER_OF THEN UPPER_OF[c] ELSE c

toLowerCase(c) == IF c \in DOMAIN LOWER_OF THEN LOWER_OF[c] ELSE c

(* String.prototype.replace(ch, ""): removes the first occurrence only. *)
replaceFirst(seq, ch) ==
  IF includes(seq, ch)
    THEN LET i == indexOf(seq, ch) + 1
         IN  SubSeq(seq, 1, i - 1) \o SubSeq(seq, i + 1, Len(seq))
    ELSE seq

isWhitePiece(p) == p # Null /\ p # Undefined /\ p = toUpperCase(p)

(* String(n) for a non-negative integer: its decimal digits. *)
RECURSIVE String(_)
String(n) ==
  IF n < 10 THEN << DIGITS[n + 1] >>
            ELSE String(n \div 10) \o << DIGITS[(n % 10) + 1] >>

(* parseInt(text, 10) on an unsigned text: the value of its leading run of *)
(* digits, NaN when it has none.  i: the 1-based position being read.      *)
RECURSIVE parseDigits(_, _, _)
parseDigits(text, i, acc) ==
  IF i <= Len(text) /\ includes(DIGITS, text[i])
    THEN parseDigits(text, i + 1, 10 * acc + indexOf(DIGITS, text[i]))
    ELSE acc

parseInt(text) ==
  IF text # << >> /\ includes(DIGITS, text[1]) THEN parseDigits(text, 1, 0) ELSE NaN

(* String.prototype.split(sep) for a one-character separator: the pieces   *)
(* of text from position start on, i being the position read.              *)
RECURSIVE splitFrom(_, _, _, _)
splitFrom(text, sep, i, start) ==
  IF i > Len(text) THEN << SubSeq(text, start, Len(text)) >>
  ELSE IF text[i] = sep
    THEN << SubSeq(text, start, i - 1) >> \o splitFrom(text, sep, i + 1, i + 1)
  ELSE splitFrom(text, sep, i + 1, start)

split(text, sep) == splitFrom(text, sep, 1, 1)

(* The first position at or after i that holds no blank (Len + 1 if none), *)
(* and the last position at or before i that holds no blank (0 if none).   *)
RECURSIVE skipBlanks(_, _)
skipBlanks(text, i) ==
  IF i <= Len(text) /\ text[i] = " " THEN skipBlanks(text, i + 1) ELSE i

RECURSIVE skipBlanksBack(_, _)
skipBlanksBack(text, i) ==
  IF i >= 1 /\ text[i] = " " THEN skipBlanksBack(text, i - 1) ELSE i

trim(text) == SubSeq(text, skipBlanks(text, 1), skipBlanksBack(text, Len(text)))

(* split(/\s+/): the fields between runs of blanks. *)
RECURSIVE splitBlanksFrom(_, _, _)
splitBlanksFrom(text, i, start) ==
  IF i > Len(text) THEN << SubSeq(text, start, Len(text)) >>
  ELSE IF text[i] = " "
    THEN << SubSeq(text, start, i - 1) >>
           \o splitBlanksFrom(text, skipBlanks(text, i), skipBlanks(text, i))
  ELSE splitBlanksFrom(text, i + 1, start)

splitBlanks(text) == splitBlanksFrom(text, 1, 1)

(* Array.prototype.join(sep). *)
RECURSIVE join(_, _)
join(parts, sep) ==
  IF Len(parts) = 0 THEN << >>
  ELSE IF Len(parts) = 1 THEN parts[1]
  ELSE parts[1] \o << sep >> \o join(Tail(parts), sep)

sq(file, rank) == << FILES[file + 1], RANKS[rank + 1] >>

(* The labels in the order of boardToArr's loops: r from 0, f from 0. *)
SQUARE_LABELS == [i \in 1..64 |-> sq((i - 1) % 8, (i - 1) \div 8)]

sqToFR(square) ==
  [f |-> indexOf(FILES, square[1]), r |-> indexOf(RANKS, square[2])]

(***************************************************************************)
(* FEN parsing / board state                                               *)
(***************************************************************************)

(* Array(8).fill(null) *)
emptyRow == [c \in 0..7 |-> Null]

(* The inner loop of parseFEN over one rank's text, from its 1-based       *)
(* position i on: a digit 1-8 advances the column c, any other character   *)
(* is stored at the column.                                                *)
RECURSIVE parseRow(_, _, _, _)
parseRow(text, i, c, row) ==
  IF i > Len(text) THEN row
  ELSE LET ch == text[i]
       IN  IF ch \in {"1", "2", "3", "4", "5", "6", "7", "8"}
             THEN parseRow(text, i + 1, c + indexOf(DIGITS, ch), row)
             ELSE parseRow(text, i + 1, c + 1,
                           IF c \in DOMAIN row THEN [row EXCEPT ![c] = ch]
                                               ELSE (c :> ch) @@ row)

(* parts[i] || fallback, for the 0-based index i. *)
partOr(parts, i, fallback) ==
  IF i + 1 <= Len(parts) /\ parts[i + 1] # << >> THEN parts[i + 1] ELSE fallback

(* parseFEN throws (iterating an undefined row) when the placement field  *)
(* holds fewer than eight ranks.                                           *)
parseFENThrows(fen) ==
  Len(split(splitBlanks(trim(fen))[1], "/")) < 8

(* The record parseFEN returns, from the fields (parts) and the ranks'     *)
(* texts (rows) it has split the text into.                                *)
parseFields(parts, rows) ==
  [board    |-> [r \in 0..7 |-> parseRow(rows[(7 - r) + 1], 1, 0, emptyRow)],
   turn     |-> partOr(parts, 1, << "w" >>),
   castling |-> partOr(parts, 2, << "-" >>),
   ep       |-> partOr(parts, 3, << "-" >>),
   halfmove |-> parseInt(partOr(parts, 4, << "0" >>)),
   fullmove |-> parseInt(partOr(parts, 5, << "1" >>))]

parseParts(parts) == parseFields(parts, split(parts[1], "/"))

parseFEN(fen) == parseParts(splitBlanks(trim(fen)))

(* The inner loop of boardToFEN over one rank. *)
RECURSIVE rowToFEN(_, _, _, _)
rowToFEN(row, f, empty, s) ==
  IF f = 8 THEN (IF empty # 0 THEN s \o String(empty) ELSE s)
  ELSE LET p == row[f]
       IN  IF p = Null \/ p = Undefined
             THEN rowToFEN(row, f + 1, empty + 1, s)
             ELSE rowToFEN(row, f + 1, 0,
                           (IF empty # 0 THEN s \o String(empty) ELSE s) \o << p >>)

boardToFEN(state) ==
  LET rows == [i \in 1..8 |-> rowToFEN(state.board[8 - i], 0, 0, << >>)]
  IN  join(rows, "/") \o << " " >> \o state.turn
        \o << " " >> \o (IF state.castling = << >> THEN << "-" >> ELSE state.castling)
        \o << " " >> \o (IF state.ep = << >> THEN << "-" >> ELSE state.ep)
        \o << " " >>
        \o String(IF state.halfmove = 0 \/ state.halfmove = NaN THEN 0 ELSE state.halfmove)
        \o << " " >>
        \o String(IF state.fullmove = 0 \/ state.fullmove = NaN THEN 1 ELSE state.fullmove)

START_FEN ==
  << "r", "n", "b", "q", "k", "b", "n", "r", "/", "p", "p", "p", "p", "p", "p", "p",
     "p", "/", "8", "/", "8", "/", "8", "/", "8", "/", "P", "P", "P", "P", "P", "P",
     "P", "P", "/", "R", "N", "B", "Q", "K", "B", "N", "R", " ", "w", " ", "K", "Q",
     "k", "q", " ", "-", " ", "0", " ", "1" >>

(***************************************************************************)
(* LightRules (the fallback rules engine)                                  *)
(***************************************************************************)

falsy(v) == v = Null \/ v = Undefined

(* Whether obj[name] is truthy, for a property that a candidate move holds *)
(* only with a truthy value (ep: true, castle: "K", captured: a piece) and *)
(* otherwise lacks, reading as undefined.                                  *)
truthyProp(obj, name) == name \in DOMAIN obj

(* A mutant of clone: the copy's state is the original's own object. *)
clone_shared(state) == [state |-> state, shared |-> TRUE]

(* LightRules.clone: a new engine whose state is a deep copy (JSON round   *)
(* trip) of this one's; nothing the copy's owner writes is shared with the *)
(* original.  "shared" records whether writes to the copy reach the        *)
(* original.                                                               *)
clone(state) == [state |-> state, shared |-> FALSE]

pieceAt(state, square) ==
  LET fr == sqToFR(square) IN state.board[fr.r][fr.f]

(* occ = (F, R) => this.state.board[R][F]; undefined for a file off the    *)
(* board.  For a rank off the board the read throws, see occThrows.        *)
occ(state, F, R) ==
  IF R \in 0..7 /\ F \in 0..7 THEN state.board[R][F] ELSE Undefined

occThrows(R) == R \notin 0..7

enemy(isW, pp) == ~falsy(pp) /\ isWhitePiece(pp) # isW

onBoard(F, R) == ~(F < 0 \/ F > 7 \/ R < 0 \/ R > 7)

(* A mutant of ray: the ray goes on behind an enemy piece. *)
RECURSIVE ray_pastCapture(_, _, _, _, _, _)
ray_pastCapture(state, isW, F, R, df, dr) ==
  IF F >= 0 /\ F < 8 /\ R >= 0 /\ R < 8
    THEN LET t == occ(state, F, R)
         IN  IF falsy(t) \/ enemy(isW, t)
               THEN << [f |-> F, r |-> R] >>
                      \o ray_pastCapture(state, isW, F + df, R + dr, df, dr)
               ELSE << >>
    ELSE << >>

(* function ray(f0, r0, [df, dr]): the squares pushed by one ray, starting *)
(* at (F, R).                                                              *)
RECURSIVE ray(_, _, _, _, _, _)
ray(state, isW, F, R, df, dr) ==
  IF F >= 0 /\ F < 8 /\ R >= 0 /\ R < 8
    THEN LET t == occ(state, F, R)
         IN  IF falsy(t)
               THEN << [f |-> F, r |-> R] >> \o ray(state, isW, F + df, R + dr, df, dr)
               ELSE IF enemy(isW, t) THEN << [f |-> F, r |-> R] >> ELSE << >>
    ELSE << >>

RECURSIVE rays(_, _, _, _, _)
rays(state, isW, f, r, dirs) ==
  IF dirs = << >> THEN << >>
  ELSE ray(state, isW, f + Head(dirs)[1], r + Head(dirs)[2], Head(dirs)[1], Head(dirs)[2])
         \o rays(state, isW, f, r, Tail(dirs))

BISHOP_DIRS == << <<1, 1>>, <<-1, 1>>, <<1, -1>>, <<-1, -1>> >>
ROOK_DIRS == << <<1, 0>>, <<-1, 0>>, <<0, 1>>, <<0, -1>> >>
KNIGHT_JUMPS ==
  << <<1, 2>>, <<2, 1>>, <<-1, 2>>, <<-2, 1>>, <<1, -2>>, <<2, -1>>, <<-1, -2>>, <<-2, -1>> >>
KING_STEPS ==
  << <<-1, -1>>, <<-1, 0>>, <<-1, 1>>, <<0, -1>>, <<0, 1>>, <<1, -1>>, <<1, 0>>, <<1, 1>> >>

(* A mutant of steps: a target is kept whatever stands on it. *)
steps_anyTarget(state, isW, f, r, offsets) ==
  LET targets == [i \in 1..Len(offsets) |->
                    [f |-> f + offsets[i][1], r |-> r + offsets[i][2]]]
  IN  SelectSeq(targets, LAMBDA t : onBoard(t.f, t.r))

(* The knight's and the king's loops: each offset kept when the target is  *)
(* on the board and empty or enemy-occupied.                               *)
steps(state, isW, f, r, offsets) ==
  LET targets == [i \in 1..Len(offsets) |->
                    [f |-> f + offsets[i][1], r |-> r + offsets[i][2]]]
  IN  SelectSeq(targets,
                LAMBDA t : /\ onBoard(t.f, t.r)
                           /\ (falsy(occ(state, t.f, t.r)) \/ enemy(isW, occ(state, t.f, t.r))))

(* A mutant of pawnPushes: the two-square push is offered from any rank. *)
pawnPushes_anyRank(state, isW, f, r) ==
  LET dir       == IF isW THEN 1 ELSE 0 - 1
      one  == IF falsy(occ(state, f, r + dir)) THEN << [f |-> f, r |-> r + dir] >> ELSE << >>
      two  == IF falsy(occ(state, f, r + dir))
                              /\ falsy(occ(state, f, r + 2 * dir))
                THEN << [f |-> f, r |-> r + 2 * dir] >> ELSE << >>
      cap(df) == LET F == f + df
                     R == r + dir
                 IN  IF F >= 0 /\ F < 8 /\ R >= 0 /\ R < 8
                        /\ ~falsy(occ(state, F, R)) /\ enemy(isW, occ(state, F, R))
                       THEN << [f |-> F, r |-> R] >> ELSE << >>
      enp  == IF state.ep # << >> /\ state.ep # << "-" >>
                THEN LET e == sqToFR(state.ep)
                     IN  IF e.r = r + dir /\ (e.f - f = 1 \/ f - e.f = 1)
                           THEN << [f |-> e.f, r |-> e.r, ep |-> TRUE] >> ELSE << >>
                ELSE << >>
  IN  one \o two \o cap(0 - 1) \o cap(1) \o enp

(* A mutant of pawnPushes: the two-square push ignores the skipped square. *)
pawnPushes_jumps(state, isW, f, r) ==
  LET dir       == IF isW THEN 1 ELSE 0 - 1
      startRank == IF isW THEN 1 ELSE 6
      one  == IF falsy(occ(state, f, r + dir)) THEN << [f |-> f, r |-> r + dir] >> ELSE << >>
      two  == IF r = startRank /\ falsy(occ(state, f, r + 2 * dir))
                THEN << [f |-> f, r |-> r + 2 * dir] >> ELSE << >>
      cap(df) == LET F == f + df
                     R == r + dir
                 IN  IF F >= 0 /\ F < 8 /\ R >= 0 /\ R < 8
                        /\ ~falsy(occ(state, F, R)) /\ enemy(isW, occ(state, F, R))
                       THEN << [f |-> F, r |-> R] >> ELSE << >>
      enp  == IF state.ep # << >> /\ state.ep # << "-" >>
                THEN LET e == sqToFR(state.ep)
                     IN  IF e.r = r + dir /\ (e.f - f = 1 \/ f - e.f = 1)
                           THEN << [f |-> e.f, r |-> e.r, ep |-> TRUE] >> ELSE << >>
                ELSE << >>
  IN  one \o two \o cap(0 - 1) \o cap(1) \o enp

pawnPushes(state, isW, f, r) ==
  LET dir       == IF isW THEN 1 ELSE 0 - 1
      startRank == IF isW THEN 1 ELSE 6
      one  == IF falsy(occ(state, f, r + dir)) THEN << [f |-> f, r |-> r + dir] >> ELSE << >>
      two  == IF r = startRank /\ falsy(occ(state, f, r + dir))
                              /\ falsy(occ(state, f, r + 2 * dir))
                THEN << [f |-> f, r |-> r + 2 * dir] >> ELSE << >>
      cap(df) == LET F == f + df
                     R == r + dir
                 IN  IF F >= 0 /\ F < 8 /\ R >= 0 /\ R < 8
                        /\ ~falsy(occ(state, F, R)) /\ enemy(isW, occ(state, F, R))
                       THEN << [f |-> F, r |-> R] >> ELSE << >>
      enp  == IF state.ep # << >> /\ state.ep # << "-" >>
                THEN LET e == sqToFR(state.ep)
                     IN  IF e.r = r + dir /\ (e.f - f = 1 \/ f - e.f = 1)
                           THEN << [f |-> e.f, r |-> e.r, ep |-> TRUE] >> ELSE << >>
                ELSE << >>
  IN  one \o two \o cap(0 - 1) \o cap(1) \o enp

kingPushes(state, isW, f, r) ==
  LET kingSide  == IF (isW /\ includes(state.castling, "K"))
                        \/ (~isW /\ includes(state.castling, "k"))
                     THEN IF falsy(occ(state, 5, r)) /\ falsy(occ(state, 6, r))
                            THEN << [f |-> 6, r |-> r, castle |-> "K"] >> ELSE << >>
                     ELSE << >>
      queenSide == IF (isW /\ includes(state.castling, "Q"))
                        \/ (~isW /\ includes(state.castling, "q"))
                     THEN IF falsy(occ(state, 1, r)) /\ falsy(occ(state, 2, r))
                               /\ falsy(occ(state, 3, r))
                            THEN << [f |-> 2, r |-> r, castle |-> "Q"] >> ELSE << >>
                     ELSE << >>
  IN  steps(state, isW, f, r, KING_STEPS) \o kingSide \o queenSide

(* The switch of movesFrom on the piece's kind. *)
pushes(state, p, isW, f, r) ==
  LET kind == toLowerCase(p)
  IN  IF kind = "p" THEN pawnPushes(state, isW, f, r)
      ELSE IF kind = "n" THEN steps(state, isW, f, r, KNIGHT_JUMPS)
      ELSE IF kind = "b" THEN rays(state, isW, f, r, BISHOP_DIRS)
      ELSE IF kind = "r" THEN rays(state, isW, f, r, ROOK_DIRS)
      ELSE IF kind = "q" THEN rays(state, isW, f, r, ROOK_DIRS \o BISHOP_DIRS)
      ELSE IF kind = "k" THEN kingPushes(state, isW, f, r)
      ELSE << >>

(* pushes.map(({f, r, ...rest}) => ({from, to, ...rest})) *)
candidate(from, push) ==
  [from |-> from, to |-> sq(push.f, push.r)]
    @@ [k \in DOMAIN push \ {"f", "r"} |-> push[k]]

candidates(from, ps) == [i \in 1..Len(ps) |-> candidate(from, ps[i])]

(* A mutant of movesFrom: the side to move is not checked. *)
movesFrom_anySide(state, square) ==
  LET p   == pieceAt(state, square)
      isW == isWhitePiece(p)
      fr  == sqToFR(square)
  IN  IF falsy(p) THEN [threw |-> FALSE, list |-> << >>]
      ELSE IF toLowerCase(p) = "p" /\ occThrows(fr.r + (IF isW THEN 1 ELSE 0 - 1))
        THEN [threw |-> TRUE, list |-> << >>]
      ELSE [threw |-> FALSE,
            list  |-> candidates(square, pushes(state, p, isW, fr.f, fr.r))]

(* LightRules.movesFrom: the list it returns, or threw = TRUE when the     *)
(* pawn branch reads a rank off the board (a TypeError).                   *)
movesFrom(state, square) ==
  LET p   == pieceAt(state, square)
      isW == isWhitePiece(p)
      me  == IF isW THEN << "w" >> ELSE << "b" >>
      fr  == sqToFR(square)
  IN  IF falsy(p) THEN [threw |-> FALSE, list |-> << >>]
      ELSE IF me # state.turn THEN [threw |-> FALSE, list |-> << >>]
      ELSE IF toLowerCase(p) = "p" /\ occThrows(fr.r + (IF isW THEN 1 ELSE 0 - 1))
        THEN [threw |-> TRUE, list |-> << >>]
      ELSE [threw |-> FALSE,
            list  |-> candidates(square, pushes(state, p, isW, fr.f, fr.r))]

(* Array.prototype.find: the first element satisfying the test, undefined *)
(* when there is none (foundTo: whether there is one).                     *)
foundTo(moves, to) == \E i \in 1..Len(moves) : moves[i].to = to

findTo(moves, to) ==
  IF foundTo(moves, to)
    THEN moves[CHOOSE i \in 1..Len(moves) :
                 moves[i].to = to /\ \A j \in 1..(i - 1) : moves[j].to # to]
    ELSE Undefined

boardToArr(board) ==
  LET all == [i \in 1..64 |->
                [square |-> SQUARE_LABELS[i],
                 piece  |-> board[(i - 1) \div 8][(i - 1) % 8]]]
  IN  SelectSeq(all, LAMBDA e : ~falsy(e.piece))

setSquare(board, r, f, v) == [board EXCEPT ![r][f] = v]

(* The steps of LightRules.move after validation, each on the clone's     *)
(* state; a and b are the origin's and the destination's coordinates, p    *)
(* the moving piece, mv the matched candidate.                             *)

(* A mutant of epCapture: the captured pawn is left on the board. *)
epCapture_keepsPawn(board, b, isW, mv) == board

(* // Handle en passant capture *)
epCapture(board, b, isW, mv) ==
  LET dir == IF isW THEN 1 ELSE 0 - 1
  IN  IF truthyProp(mv, "ep") THEN setSquare(board, b.r - dir, b.f, Null) ELSE board

(* // Move piece *)
relocate(board, a, b, p) == setSquare(setSquare(board, b.r, b.f, p), a.r, a.f, Null)

(* A mutant of promote: the pawn stays a pawn. *)
promote_keepsPawn(board, b, p, isW, promotion) == board

(* A mutant of promote: the pawn becomes a queen whatever kind is asked. *)
promote_alwaysQueen(board, b, p, isW, promotion) ==
  IF toLowerCase(p) = "p" /\ (b.r = 7 \/ b.r = 0)
    THEN setSquare(board, b.r, b.f, IF isW THEN "Q" ELSE "q")
    ELSE board

(* // Pawn promotion *)
promote(board, b, p, isW, promotion) ==
  IF toLowerCase(p) = "p" /\ (b.r = 7 \/ b.r = 0)
    THEN LET promo == IF falsy(promotion) THEN "q" ELSE promotion
         IN  setSquare(board, b.r, b.f,
                       IF isW THEN toUpperCase(promo) ELSE toLowerCase(promo))
    ELSE board

isCastle(a, b, p) == toLowerCase(p) = "k" /\ (b.f - a.f = 2 \/ a.f - b.f = 2)

(* A mutant of castleRook: the corner keeps its rook. *)
castleRook_leavesCorner(board, a, b, p) ==
  IF isCastle(a, b, p) /\ b.f = 6
    THEN setSquare(board, a.r, 5, board[a.r][7])
  ELSE IF isCastle(a, b, p) /\ b.f = 2
    THEN setSquare(board, a.r, 3, board[a.r][0])
  ELSE board

(* // Castling rook move *)
castleRook(board, a, b, p) ==
  IF isCastle(a, b, p) /\ b.f = 6
    THEN setSquare(setSquare(board, a.r, 5, board[a.r][7]), a.r, 7, Null)
  ELSE IF isCastle(a, b, p) /\ b.f = 2
    THEN setSquare(setSquare(board, a.r, 3, board[a.r][0]), a.r, 0, Null)
  ELSE board

(* A mutant of castlingAfter: castling leaves no rights to either side. *)
castlingAfter_clearsAll(castling, a, b, p, isW) ==
  IF isCastle(a, b, p) THEN << >> ELSE castling

(* A mutant of castlingAfter: a rook's move also gives up its side's       *)
(* rights.                                                                 *)
castlingAfter_rookMoves(castling, a, b, p, isW) ==
  IF isCastle(a, b, p) \/ toLowerCase(p) = "r"
    THEN IF isW THEN replaceFirst(replaceFirst(castling, "K"), "Q")
                ELSE replaceFirst(replaceFirst(castling, "k"), "q")
    ELSE castling

(* // remove castling rights for that color *)
castlingAfter(castling, a, b, p, isW) ==
  IF isCastle(a, b, p)
    THEN IF isW THEN replaceFirst(replaceFirst(castling, "K"), "Q")
                ELSE replaceFirst(replaceFirst(castling, "k"), "q")
    ELSE castling

(* A mutant of epAfter: the target is set after every pawn move. *)
epAfter_anyPawnMove(a, b, p, isW) ==
  LET dir == IF isW THEN 1 ELSE 0 - 1
  IN  IF toLowerCase(p) = "p" THEN sq(a.f, a.r + dir) ELSE << "-" >>

(* // Update EP square *)
epAfter(a, b, p, isW) ==
  LET dir == IF isW THEN 1 ELSE 0 - 1
  IN  IF toLowerCase(p) = "p" /\ (b.r - a.r = 2 \/ a.r - b.r = 2)
        THEN sq(a.f, a.r + dir) ELSE << "-" >>

(* A mutant of turnAfter: the side to move stays. *)
turnAfter_stuck(turn) == turn

(* // Turn & counters *)
turnAfter(turn) == IF turn = << "w" >> THEN << "b" >> ELSE << "w" >>

halfmoveAfter(halfmove, p, mv) ==
  IF toLowerCase(p) = "p" \/ truthyProp(mv, "captured")
    THEN 0
    ELSE (IF halfmove = NaN THEN 0 ELSE halfmove) + 1

(* A mutant of fullmoveAfter: the number grows after white's move. *)
fullmoveAfter_afterWhite(fullmove, turn) ==
  IF turn = << "b" >>
    THEN (IF fullmove = 0 \/ fullmove = NaN THEN 1 ELSE fullmove) + 1
    ELSE fullmove

(* A mutant of fullmoveAfter: the number grows after every move. *)
fullmoveAfter_everyMove(fullmove, turn) ==
  (IF fullmove = 0 \/ fullmove = NaN THEN 1 ELSE fullmove) + 1

(* turn: the side to move after the flip. *)
fullmoveAfter(fullmove, turn) ==
  IF turn = << "w" >>
    THEN (IF fullmove = 0 \/ fullmove = NaN THEN 1 ELSE fullmove) + 1
    ELSE fullmove

applyMove(state, a, b, p, mv, promotion) ==
  LET isW == isWhitePiece(p)
      b1  == epCapture(state.board, b, isW, mv)
      b2  == relocate(b1, a, b, p)
      b3  == promote(b2, b, p, isW, promotion)
      b4  == castleRook(b3, a, b, p)
      turn == turnAfter(state.turn)
  IN  [board    |-> b4,
       turn     |-> turn,
       castling |-> castlingAfter(state.castling, a, b, p, isW),
       ep       |-> epAfter(a, b, p, isW),
       halfmove |-> halfmoveAfter(state.halfmove, p, mv),
       fullmove |-> fullmoveAfter(state.fullmove, turn)]

(* A mutant of validate: black's pieces are checked against white's turn. *)
validate_turnSlip(state, arg) ==
  LET a == sqToFR(arg.from)
      p == state.board[a.r][a.f]
      isW == isWhitePiece(p)
      moves == movesFrom(state, arg.from)
  IN  IF falsy(p) THEN "empty"
      ELSE IF (isW /\ state.turn # << "w" >>) \/ (~isW /\ state.turn # << "w" >>)
        THEN "turn"
      ELSE IF moves.threw THEN "TypeError"
      ELSE IF ~foundTo(moves.list, arg.to) THEN "illegal"
      ELSE "ok"

(* A mutant of validate: the destination is checked before the turn. *)
validate_illegalFirst(state, arg) ==
  LET a == sqToFR(arg.from)
      p == state.board[a.r][a.f]
      isW == isWhitePiece(p)
      moves == movesFrom(state, arg.from)
  IN  IF falsy(p) THEN "empty"
      ELSE IF moves.threw THEN "TypeError"
      ELSE IF ~foundTo(moves.list, arg.to) THEN "illegal"
      ELSE IF (isW /\ state.turn # << "w" >>) \/ (~isW /\ state.turn # << "b" >>)
        THEN "turn"
      ELSE "ok"

(* The validation at the head of LightRules.move: the reason it returns a  *)
(* failure with, "TypeError" when movesFrom throws, "ok" when it goes on to *)
(* apply the move.                                                         *)
verdict(s, arg, p, isW, moves) ==
  IF falsy(p) THEN "empty"
  ELSE IF (isW /\ s.state.turn # << "w" >>) \/ (~isW /\ s.state.turn # << "b" >>)
    THEN "turn"
  ELSE IF moves.threw THEN "TypeError"
  ELSE IF ~foundTo(moves.list, arg.to) THEN "illegal"
  ELSE "ok"

validate(state, arg) ==
  LET s == clone(state)
      a == sqToFR(arg.from)
      p == s.state.board[a.r][a.f]
  IN  verdict(s, arg, p, isWhitePiece(p), movesFrom(state, arg.from))

(* LightRules.move({from, to, promotion}) on the engine whose state is     *)
(* "state": the value it returns (result; threw = TRUE when it throws      *)
(* instead) and the engine's own state when it returns (self).             *)
(* The return of a successful move: after is the clone's state once the    *)
(* move is applied, mv the matched candidate.                              *)
moved(s, state, arg, p, mv, after) ==
  [self   |-> IF s.shared THEN after ELSE state,
   result |-> [ok |-> TRUE, threw |-> FALSE,
               state |-> after,
               fen   |-> boardToFEN(after),
               move  |-> [from |-> arg.from, to |-> arg.to, piece |-> p,
                          captured |-> IF truthyProp(mv, "captured")
                                         THEN mv.captured ELSE Null,
                          before |-> boardToArr(state.board),
                          after  |-> boardToArr(after.board)]]]

(* The body of move once its validation has returned the reason (or "ok"). *)
moveAfter(s, state, arg, a, b, p, mv, reason) ==
  IF reason = "TypeError"
    THEN [self |-> state,
          result |-> [ok |-> FALSE, threw |-> TRUE, reason |-> reason]]
  ELSE IF reason # "ok"
    THEN [self |-> state,
          result |-> [ok |-> FALSE, threw |-> FALSE, reason |-> reason]]
  ELSE moved(s, state, arg, p, mv, applyMove(s.state, a, b, p, mv, arg.promotion))

move(state, arg) ==
  LET s == clone(state)
      a == sqToFR(arg.from)
      b == sqToFR(arg.to)
  IN  moveAfter(s, state, arg, a, b, s.state.board[a.r][a.f],
                findTo(movesFrom(state, arg.from).list, arg.to),
                validate(state, arg))

(***************************************************************************)
(* The Chessboard and its rules engine                                     *)
(***************************************************************************)

VARIABLES
  rules,     \* this.rules.state: the position held by the board's LightRules
  state,     \* this.state: the position the Chessboard shows
  last,      \* the latest call of rules.move: who made it (op), its argument (arg),
             \* the engine's position when it was made (pre) and its result (res)
  premove,   \* this._premove: NoObject or [from, to]
  dragging,  \* this._dragging: NoObject or [from]
  hoverSq,   \* this._hoverSq: NoSquare or a square
  raf,       \* this._raf: the id of the frame request the board remembers, or 0
  frames,    \* the frame callbacks the browser holds: [id, anim], anim being the
             \* transition whose tick closure was registered
  rafSeq,    \* the number of requestAnimationFrame calls made so far (the last id)
  animSeq,   \* the number of transitions started so far (the latest transition)
  call       \* the latest operation run: its name (op), its arguments (args),
             \* the position the board showed (before), the frame callbacks the
             \* browser held (pending) and the premove that was pending (premove)
             \* when it began, what it returned
             \* (ret), the events it emitted (events) and the number of calls
             \* of rules.move it made (engineCalls) and the transitions it
             \* started (transitions)

vars == << rules, state, last, premove, dragging, hoverSq, raf, frames, rafSeq,
           animSeq, call >>

(* null, for a field that holds an object or a square otherwise. *)
NoObject == [null |-> TRUE]
NoSquare == << >>

(* The longest game played: successful moves from the initial position. *)
MaxPlies == 11

(* Moves made so far in the position st, counted from its move number and  *)
(* side to move.                                                           *)
plies(st) == 2 * (st.fullmove - 1) + (IF st.turn = << "b" >> THEN 1 ELSE 0)

input(from, to, promotion) == [from |-> from, to |-> to, promotion |-> promotion]

(* The moves asked of board.move.  White: e3, Bd3, Ne2 and O-O; the       *)
(* h-pawn to h4, h5, g6 (en passant), h7 and g8 (promotion, to a queen or  *)
(* a knight); Rh3; Qxh8.  Black: Nc6, d6, Be6, Qd7 and O-O-O; g5.          *)
BoardInputs ==
  { input(<< "e", "2" >>, << "e", "3" >>, Undefined),
    input(<< "f", "1" >>, << "d", "3" >>, Undefined),
    input(<< "g", "1" >>, << "e", "2" >>, Undefined),
    input(<< "e", "1" >>, << "g", "1" >>, Undefined),
    input(<< "h", "2" >>, << "h", "4" >>, Undefined),
    input(<< "h", "4" >>, << "h", "5" >>, Undefined),
    input(<< "h", "5" >>, << "g", "6" >>, Undefined),
    input(<< "g", "6" >>, << "h", "7" >>, Undefined),
    input(<< "h", "7" >>, << "g", "8" >>, Undefined),
    input(<< "h", "7" >>, << "g", "8" >>, "n"),
    input(<< "h", "1" >>, << "h", "3" >>, Undefined),
    input(<< "g", "8" >>, << "h", "8" >>, Undefined),
    input(<< "b", "8" >>, << "c", "6" >>, Undefined),
    input(<< "d", "7" >>, << "d", "6" >>, Undefined),
    input(<< "c", "8" >>, << "e", "6" >>, Undefined),
    input(<< "d", "8" >>, << "d", "7" >>, Undefined),
    input(<< "e", "8" >>, << "c", "8" >>, Undefined),
    input(<< "g", "7" >>, << "g", "5" >>, Undefined) }

(* The moves asked of rules.move directly: e2-e4, e7-e5, e2-e5, e4-e5 and  *)
(* h7xg8 without a promotion kind.                                         *)
RulesInputs ==
  { input(<< "e", "2" >>, << "e", "4" >>, Undefined),
    input(<< "e", "7" >>, << "e", "5" >>, Undefined),
    input(<< "e", "2" >>, << "e", "5" >>, Undefined),
    input(<< "e", "4" >>, << "e", "5" >>, Undefined),
    input(<< "h", "7" >>, << "g", "8" >>, Undefined) }

(* The Chessboard's fields at the start of a handler, with the events the *)
(* handler has emitted and the calls of rules.move it has made so far.     *)
This ==
  [rules |-> rules, state |-> state, last |-> last, premove |-> premove,
   dragging |-> dragging, hoverSq |-> hoverSq, raf |-> raf, frames |-> frames,
   rafSeq |-> rafSeq, animSeq |-> animSeq, events |-> << >>, engineCalls |-> 0,
   transitions |-> << >>]

(* EventBus.emit, as seen by whoever listens. *)
emit(this, type, payload) ==
  [this EXCEPT !.events = Append(@, [type |-> type, payload |-> payload])]

(* Chessboard._pieceAt *)
boardPieceAt(this, square) == pieceAt(this.state, square)

(* this._raf = requestAnimationFrame(tick), tick being the closure of the  *)
(* transition anim: the browser holds the callback under a new id.         *)
requestFrame(this, anim) ==
  [this EXCEPT !.rafSeq = @ + 1,
               !.frames = @ \cup {[id |-> this.rafSeq + 1, anim |-> anim]},
               !.raf    = this.rafSeq + 1]

(* A mutant of clearAnim: the pending frame request is not cancelled. *)
clearAnim_noCancel(this) == [this EXCEPT !.raf = 0]

(* Chessboard._clearAnim *)
clearAnim(this) ==
  [this EXCEPT !.frames = {fr \in @ : fr.id # this.raf}, !.raf = 0]

(* A mutant of findPiece: the first square holding the piece, whether or   *)
(* not it held it at the start.                                            *)
findPiece_anySquare(board, piece, r0, f0, startBoard) ==
  LET hits == {i \in 0..63 : board[i \div 8][i % 8] = piece}
  IN  IF hits = {} THEN NoObject
      ELSE LET first == CHOOSE i \in hits : \A j \in hits : i <= j
           IN  [r |-> first \div 8, f |-> first % 8]

(* function findPiece(board, piece, r0, f0, startBoard): the first square, *)
(* r from 0 and f from 0 within r, that holds the piece on board and did   *)
(* not on startBoard; null when there is none.                             *)
findPiece(board, piece, r0, f0, startBoard) ==
  LET hits == {i \in 0..63 : /\ board[i \div 8][i % 8] = piece
                             /\ startBoard[i \div 8][i % 8] # piece}
  IN  IF hits = {} THEN NoObject
      ELSE LET first == CHOOSE i \in hits : \A j \in hits : i <= j
           IN  [r |-> first \div 8, f |-> first % 8]

(* Whether _animateTo's loop sets an entry for the square (f, r). *)
moves(start, end, r, f) ==
  /\ ~falsy(start.board[r][f])
  /\ falsy(end.board[r][f]) \/ start.board[r][f] # end.board[r][f]
  /\ findPiece(end.board, start.board[r][f], r, f, start.board) # NoObject

(* The movingMap _animateTo builds: sq(f, r) -> sq(to.f, to.r). *)
movingMap(start, end) ==
  [o \in {sq(x[2], x[1]) : x \in {y \in (0..7) \X (0..7) : moves(start, end, y[1], y[2])}}
     |-> LET a  == sqToFR(o)
             to == findPiece(end.board, start.board[a.r][a.f], a.r, a.f, start.board)
         IN  sq(to.f, to.r)]

(* _animateTo once _clearAnim has run: a new transition, and its first     *)
(* frame request.                                                          *)
startTransition(this, targetState, startState) ==
  requestFrame([this EXCEPT !.animSeq = @ + 1,
                            !.transitions =
                               Append(@, [start |-> startState, end |-> targetState,
                                          movingMap |-> movingMap(startState, targetState)])],
               this.animSeq + 1)

(* Chessboard._animateTo *)
animateTo(this, targetState, startState) ==
  startTransition(clearAnim(this), targetState, startState)

(* this.rules.move(arg), called by op. *)
rulesMoved(this, op, arg, m) ==
  [this EXCEPT !.rules = m.self,
               !.last = [op |-> op, arg |-> arg, pre |-> this.rules, res |-> m.result],
               !.engineCalls = @ + 1]

rulesMove(this, op, arg) == rulesMoved(this, op, arg, move(this.rules, arg))

(* A mutant of installed: the engine is not given the new record. *)
installed_boardOnly(this, newState) == [this EXCEPT !.state = newState]

(* The position installed by an accepted move: this.state = newState and   *)
(* this.rules.setFEN(newFen).                                              *)
installed(this, newState) == [this EXCEPT !.state = newState, !.rules = newState]

(* The accepting branch of Chessboard.move and of _onPointerUp: newState   *)
(* is parseFEN(newFen), oldState the position shown until then.            *)
accepted(this, from, to, newFen, newState) ==
  emit(animateTo(installed(this, newState), newState, this.state), "move",
       [from |-> from, to |-> to, fen |-> newFen])

(* A mutant of afterRulesMove: a rejected move emits nothing. *)
afterRulesMove_silentReject(this, from, to, res) ==
  IF res.threw
    THEN [this |-> this, ret |-> "threw"]
  ELSE IF res.ok
    THEN [this |-> accepted(this, from, to, res.fen, parseFEN(res.fen)), ret |-> "true"]
  ELSE [this |-> this, ret |-> "false"]

(* The body of Chessboard.move and of the move path of _onPointerUp after  *)
(* the call of rules.move: res is what the call returned.                  *)
afterRulesMove(this, from, to, res) ==
  IF res.threw
    THEN [this |-> this, ret |-> "threw"]
  ELSE IF res.ok
    THEN [this |-> accepted(this, from, to, res.fen, parseFEN(res.fen)), ret |-> "true"]
  ELSE [this |-> emit(this, "illegal",
                      [from |-> from, to |-> to,
                       reason |-> IF "reason" \in DOMAIN res THEN res.reason
                                                            ELSE "illegal"]),
        ret  |-> "false"]

chessboardMoved(this, from, to) == afterRulesMove(this, from, to, this.last.res)

(* Chessboard.move(from, to, promotion = "q"): the board it leaves and the *)
(* value it returns ("threw" when the engine throws).                      *)
chessboardMove(this, from, to, promotion) ==
  chessboardMoved(
    rulesMove(this, "board.move",
              input(from, to, IF promotion = Undefined THEN "q" ELSE promotion)),
    from, to)

(* A mutant of checkAndPlayPremove: the premove is cleared only once it has *)
(* been played.                                                            *)
checkAndPlayPremove_keepsRejected(this) ==
  IF this.premove = NoObject THEN this
  ELSE IF falsy(boardPieceAt(this, this.premove.from))
    THEN [this EXCEPT !.premove = NoObject]
  ELSE IF (IF isWhitePiece(boardPieceAt(this, this.premove.from))
             THEN << "w" >> ELSE << "b" >>) = this.state.turn
    THEN LET played == chessboardMove(this, this.premove.from, this.premove.to, Undefined)
         IN  IF played.ret = "true" THEN [played.this EXCEPT !.premove = NoObject]
                                    ELSE played.this
  ELSE this

(* Chessboard._checkAndPlayPremove *)
checkAndPlayPremove(this) ==
  IF this.premove = NoObject THEN this
  ELSE IF falsy(boardPieceAt(this, this.premove.from))
    THEN [this EXCEPT !.premove = NoObject]
  ELSE IF (IF isWhitePiece(boardPieceAt(this, this.premove.from))
             THEN << "w" >> ELSE << "b" >>) = this.state.turn
    THEN chessboardMove([this EXCEPT !.premove = NoObject],
                        this.premove.from, this.premove.to, Undefined).this
  ELSE this

(* The tick closure of a transition, run by the browser for the request    *)
(* fr; done: whether the transition's time has elapsed (t = 1).            *)
tick(this, fr, done) ==
  IF ~done
    THEN requestFrame([this EXCEPT !.frames = @ \ {fr}], fr.anim)
    ELSE checkAndPlayPremove([this EXCEPT !.frames = @ \ {fr}, !.raf = 0])

(* A mutant of loaded: the pending premove is kept. *)
loaded_keepsPremove(this, engineState) ==
  [this EXCEPT !.rules = engineState,
               !.state = parseFEN(boardToFEN(engineState))]

(* A mutant of loaded: the engine is loaded, the board is not. *)
loaded_engineOnly(this, engineState) ==
  [this EXCEPT !.rules = engineState, !.premove = NoObject]

(* The position loaded by setPosition: the engine's, and the board's read  *)
(* back from the engine's record.                                          *)
loaded(this, engineState) ==
  [this EXCEPT !.rules = engineState,
               !.state = parseFEN(boardToFEN(engineState)),
               !.premove = NoObject]

(* The event closing setPosition. *)
updated(this) == emit(this, "update", [fen |-> boardToFEN(this.state)])

(* setPosition once the position is loaded: drawn at once or animated from *)
(* oldState, then announced.                                               *)
shown(this, oldState, immediate) ==
  updated(IF immediate THEN clearAnim(this) ELSE animateTo(this, this.state, oldState))

(* Chessboard.setPosition(fen, {immediate}) *)
setPosition(this, fen, immediate) ==
  IF parseFENThrows(fen)
    THEN [this |-> this, ret |-> "threw"]
    ELSE [this |-> shown(loaded(this, parseFEN(fen)), this.state, immediate),
          ret  |-> Undefined]

(* _onPointerDown with the left button on the square at: a piece there is  *)
(* picked up.                                                              *)
pointerDown(this, at) ==
  IF falsy(boardPieceAt(this, at)) THEN this
  ELSE [this EXCEPT !.dragging = [from |-> at], !.hoverSq = at]

(* _onPointerMove over the square at. *)
pointerMove(this, at) ==
  IF this.dragging = NoObject THEN this ELSE [this EXCEPT !.hoverSq = at]

(* The move path of _onPointerUp: the piece of the side to move dropped on *)
(* another square.                                                         *)
dropped(this, from, drop) ==
  afterRulesMove(this, from, drop, this.last.res).this

(* A mutant of pointerUp: a piece that is not of the side to move is tried  *)
(* like any other.                                                         *)
pointerUp_noPremove(this) ==
  IF this.dragging = NoObject THEN this
  ELSE IF this.hoverSq = NoSquare \/ this.hoverSq = this.dragging.from
    THEN [this EXCEPT !.dragging = NoObject, !.hoverSq = NoSquare]
  ELSE IF falsy(boardPieceAt(this, this.dragging.from))
    THEN [this EXCEPT !.dragging = NoObject, !.hoverSq = NoSquare]
  ELSE dropped(rulesMove([this EXCEPT !.dragging = NoObject, !.hoverSq = NoSquare],
                         "pointerup",
                         input(this.dragging.from, this.hoverSq, Undefined)),
               this.dragging.from, this.hoverSq)

(* _onPointerUp for the left button. *)
pointerUp(this) ==
  IF this.dragging = NoObject THEN this
  ELSE IF this.hoverSq = NoSquare \/ this.hoverSq = this.dragging.from
    THEN [this EXCEPT !.dragging = NoObject, !.hoverSq = NoSquare]
  ELSE IF falsy(boardPieceAt(this, this.dragging.from))
    THEN [this EXCEPT !.dragging = NoObject, !.hoverSq = NoSquare]
  ELSE IF (IF isWhitePiece(boardPieceAt(this, this.dragging.from))
             THEN << "w" >> ELSE << "b" >>) # this.state.turn
    THEN [this EXCEPT !.dragging = NoObject, !.hoverSq = NoSquare,
                      !.premove = [from |-> this.dragging.from, to |-> this.hoverSq]]
  ELSE dropped(rulesMove([this EXCEPT !.dragging = NoObject, !.hoverSq = NoSquare],
                         "pointerup",
                         input(this.dragging.from, this.hoverSq, Undefined)),
               this.dragging.from, this.hoverSq)

(* The handler has run: the board's fields are those of this, and call     *)
(* describes the run.                                                      *)
Ran(op, args, this, ret) ==
  /\ rules' = this.rules
  /\ state' = this.state
  /\ last' = this.last
  /\ premove' = this.premove
  /\ dragging' = this.dragging
  /\ hoverSq' = this.hoverSq
  /\ raf' = this.raf
  /\ frames' = this.frames
  /\ rafSeq' = this.rafSeq
  /\ animSeq' = this.animSeq
  /\ call' = [op |-> op, args |-> args, before |-> state, pending |-> frames,
              premove |-> premove,
              ret |-> ret,
              events |-> this.events, engineCalls |-> this.engineCalls,
              transitions |-> this.transitions]

RanReturning(op, args, r) == Ran(op, args, r.this, r.ret)

(* new Chessboard(root, {}): the engine and the board both hold the start  *)
(* position (the constructor's setPosition(START_FEN, {immediate: true})); *)
(* nothing is dragged, pending or animated.                                *)
Init ==
  /\ rules = parseFEN(START_FEN)
  /\ state = parseFEN(boardToFEN(parseFEN(START_FEN)))
  /\ last = [op |-> "none"]
  /\ premove = NoObject
  /\ dragging = NoObject
  /\ hoverSq = NoSquare
  /\ raf = 0
  /\ frames = {}
  /\ rafSeq = 0
  /\ animSeq = 0
  /\ call = [op |-> "none"]

(* this.rules.move(arg), called through the rules-adapter contract. *)
RulesMove(arg) ==
  Ran("rules.move", arg, rulesMove(This, "rules.move", arg), Undefined)

(* board.move(from, to, promotion) *)
BoardMove(in) ==
  /\ plies(rules) < MaxPlies
  /\ RanReturning("board.move", in, chessboardMove(This, in.from, in.to, in.promotion))

Next ==
  \/ \E arg \in RulesInputs : RulesMove(arg)
  \/ \E in \in BoardInputs : BoardMove(in)

Spec == Init /\ [][Next]_vars

(***************************************************************************)
(* The Chessboard in use: gestures, position loads and animation frames    *)
(***************************************************************************)

(* The most frame requests made in a run. *)
MaxFrames == 4

(* The squares the pointer visits: e7 and e5. *)
UI_SQUARES == { << "e", "7" >>, << "e", "5" >> }

(* The moves asked of board.move: e2-e4 and e7-e5. *)
UI_MOVES ==
  { input(<< "e", "2" >>, << "e", "4" >>, Undefined),
    input(<< "e", "7" >>, << "e", "5" >>, Undefined) }

(* An endgame record: 4k3/4p3/8/8/8/8/4P3/4K3 b - - 3 20 *)
ENDGAME_FEN ==
  << "4", "k", "3", "/", "4", "p", "3", "/", "8", "/", "8", "/", "8", "/", "8", "/",
     "4", "P", "3", "/", "4", "K", "3", " ", "b", " ", "-", " ", "-", " ", "3", " ",
     "2", "0" >>

(* The loads asked of board.setPosition: the start position, animated and *)
(* immediate, and the endgame, animated.                                   *)
UI_LOADS ==
  { [fen |-> START_FEN, immediate |-> FALSE],
    [fen |-> START_FEN, immediate |-> TRUE],
    [fen |-> ENDGAME_FEN, immediate |-> FALSE] }

(* board.move(from, to), while frames may be pending. *)
Move(in) ==
  /\ rafSeq < MaxFrames
  /\ RanReturning("board.move", in, chessboardMove(This, in.from, in.to, in.promotion))

(* board.setPosition(fen, {immediate}) *)
SetPosition(fen, immediate) ==
  /\ rafSeq < MaxFrames
  /\ RanReturning("setPosition", [fen |-> fen, immediate |-> immediate],
                  setPosition(This, fen, immediate))

(* The pointer goes down, moves and goes up over the board. *)
PointerDown(at) == Ran("pointerdown", at, pointerDown(This, at), Undefined)

PointerMove(at) == Ran("pointermove", at, pointerMove(This, at), Undefined)

PointerUp ==
  /\ rafSeq < MaxFrames
  /\ Ran("pointerup", [from |-> dragging, drop |-> hoverSq], pointerUp(This), Undefined)

(* The browser runs the frame callback fr. *)
Frame(fr, done) ==
  /\ rafSeq < MaxFrames
  /\ Ran("frame", [frame |-> fr, done |-> done], tick(This, fr, done), Undefined)

UINext ==
  \/ \E in \in UI_MOVES : Move(in)
  \/ \E load \in UI_LOADS : SetPosition(load.fen, load.immediate)
  \/ \E at \in UI_SQUARES : PointerDown(at)
  \/ \E at \in UI_SQUARES : PointerMove(at)
  \/ PointerUp
  \/ \E fr \in frames, done \in BOOLEAN : Frame(fr, done)

UISpec == Init /\ [][UINext]_vars

(***************************************************************************)
(* Properties                                                              *)
(***************************************************************************)

Squares == {sq(f, r) : f \in 0..7, r \in 0..7}

StartPosition == parseFEN(START_FEN)

(* The position "rules" is the initial one or was produced by a move. *)
Arrived == last.op = "none" \/ last.res.ok

Called == last.op # "none"

Succeeded == Called /\ last.res.ok

(* The latest call's piece, coordinates and kind, read from the position   *)
(* it was made in.                                                         *)
MovedPiece == pieceAt(last.pre, last.arg.from)
TargetPiece == pieceAt(last.pre, last.arg.to)
From == sqToFR(last.arg.from)
To == sqToFR(last.arg.to)
MovedPawn == MovedPiece \in {"P", "p"}
MoverIsWhite == MovedPiece \in {"K", "Q", "R", "B", "N", "P"}
ColourOf(p) == IF p \in {"K", "Q", "R", "B", "N", "P"} THEN << "w" >> ELSE << "b" >>
DoubleAdvance == MovedPawn /\ (To.r - From.r = 2 \/ From.r - To.r = 2)
(* A pawn moving diagonally onto an empty square: en passant. *)
EnPassant == MovedPawn /\ To.f # From.f /\ TargetPiece = Null
Capture == TargetPiece # Null \/ EnPassant
(* The piece a capture removes, Null when the move captures nothing. *)
Removed ==
  IF TargetPiece # Null THEN TargetPiece
  ELSE IF EnPassant THEN last.pre.board[From.r][To.f]
  ELSE Null

DestinationsOf(ms) == {ms[i].to : i \in 1..Len(ms)}

Destinations(st, s) == DestinationsOf(movesFrom(st, s).list)

Accepted(r) == r.ok /\ ~r.threw

(* C1: in every position reached, every candidate that movesFrom(s)        *)
(* returns, for every square s, is accepted by move({from: s, to: m.to}):  *)
(* it returns ok and does not throw.                                       *)
C1_CandidatesSucceed ==
  Arrived =>
    \A s \in Squares :
      \A to \in Destinations(rules, s) :
        Accepted(move(rules, input(s, to, Undefined)).result)

(* An en-passant candidate of movesFrom was played and accepted. *)
C1_Witness ==
  /\ Succeeded
  /\ last.pre.ep # << "-" >>
  /\ last.arg.to = last.pre.ep
  /\ last.arg.to \in Destinations(last.pre, last.arg.from)

(* C2: move returns, and never throws, "empty" when from holds no piece,   *)
(* else "turn" when the piece is not of the side to move (whatever to is), *)
(* else "illegal" when to is no destination of movesFrom(from); from the   *)
(* initial position e7-e5 fails with "turn" and e2-e5 with "illegal".      *)
C2_ValidationOrder ==
  /\ Called =>
       /\ ~last.res.threw
       /\ MovedPiece = Null => ~last.res.ok /\ last.res.reason = "empty"
       /\ MovedPiece # Null /\ ColourOf(MovedPiece) # last.pre.turn
            => ~last.res.ok /\ last.res.reason = "turn"
       /\ MovedPiece # Null /\ ColourOf(MovedPiece) = last.pre.turn
            /\ last.arg.to \notin Destinations(last.pre, last.arg.from)
            => ~last.res.ok /\ last.res.reason = "illegal"
  /\ Called /\ last.pre = StartPosition
       /\ last.arg.from = << "e", "7" >> /\ last.arg.to = << "e", "5" >>
       => ~last.res.ok /\ last.res.reason = "turn"
  /\ Called /\ last.pre = StartPosition
       /\ last.arg.from = << "e", "2" >> /\ last.arg.to = << "e", "5" >>
       => ~last.res.ok /\ last.res.reason = "illegal"

(* From the initial position, e7-e5 was asked and rejected with "turn". *)
C2_Witness ==
  /\ Called
  /\ last.pre = StartPosition
  /\ last.arg.from = << "e", "7" >> /\ last.arg.to = << "e", "5" >>
  /\ ~last.res.ok /\ last.res.reason = "turn"

(* C3: the position a successful move produces has its en-passant target   *)
(* set exactly when the move was a two-square pawn advance, and then to    *)
(* the square the pawn passed over; every other move leaves it "-", the    *)
(* move right after a double advance included.                             *)
C3_EnPassantTarget ==
  Succeeded =>
    /\ (last.res.state.ep # << "-" >>) <=> DoubleAdvance
    /\ DoubleAdvance => last.res.state.ep = sq(From.f, (From.r + To.r) \div 2)
    /\ last.res.state.ep # << >>

(* The move right after a double advance was made, and cleared the target. *)
C3_Witness ==
  /\ Succeeded
  /\ last.pre.ep # << "-" >>
  /\ ~DoubleAdvance
  /\ last.res.state.ep = << "-" >>

(* C4: after a successful move the halfmove clock is 0 when the moved      *)
(* piece was a pawn or the move captured a piece, and the previous clock   *)
(* plus 1 otherwise.                                                       *)
C4_HalfmoveClock ==
  Succeeded =>
    last.res.state.halfmove =
      IF MovedPawn \/ Capture THEN 0 ELSE last.pre.halfmove + 1

(* C5: the move record of a successful move holds, as captured, the piece  *)
(* the move removed (from the destination, or by en passant), and no piece *)
(* when the move captured nothing.                                         *)
C5_CapturedPiece ==
  Succeeded => last.res.move.captured = Removed

(* The latest call castled: a king moved two files. *)
CastlingMove ==
  Succeeded /\ MovedPiece \in {"K", "k"} /\ (To.f - From.f = 2 \/ From.f - To.f = 2)

Flags(castling) == {castling[i] : i \in 1..Len(castling)}

OwnFlags == IF MoverIsWhite THEN {"K", "Q"} ELSE {"k", "q"}
OpponentFlags == IF MoverIsWhite THEN {"k", "q"} ELSE {"K", "Q"}

(* C6: a castling move leaves the king on g/c and its origin empty, the    *)
(* side's rook on f/d and the h/a corner empty, none of the side's         *)
(* castling flags, and the opponent's flags as they were.                  *)
C6_Castling ==
  CastlingMove =>
    /\ last.res.state.board[From.r][To.f] = MovedPiece
    /\ To.f \in {2, 6}
    /\ last.res.state.board[From.r][From.f] = Null
    /\ last.res.state.board[From.r][IF To.f = 6 THEN 5 ELSE 3]
         = (IF MoverIsWhite THEN "R" ELSE "r")
    /\ last.res.state.board[From.r][IF To.f = 6 THEN 7 ELSE 0] = Null
    /\ Flags(last.res.state.castling) \cap OwnFlags = {}
    /\ Flags(last.res.state.castling) \cap OpponentFlags
         = Flags(last.pre.castling) \cap OpponentFlags

(* C7: the position a successful move produces is what parseFEN reads back *)
(* from boardToFEN's record of it, in all six components.                  *)
C7_RoundTrip ==
  Succeeded => parseFEN(boardToFEN(last.res.state)) = last.res.state

(* C8: a call of the engine's move, accepted or rejected, leaves the       *)
(* engine holding the position it held before the call; the position an    *)
(* accepted move produces is in the result only.                           *)
C8_EngineUnchanged ==
  (last.op = "rules.move" \/ (Called /\ ~last.res.ok)) =>
    /\ rules = last.pre
    /\ boardToFEN(rules) = boardToFEN(last.pre)
    /\ last.res.ok => last.res.state # rules /\ last.res.fen # boardToFEN(rules)

(* The engine accepted a move asked of it directly, and still holds the    *)
(* position with the mover to play.                                        *)
C8_Witness ==
  /\ last.op = "rules.move"
  /\ last.res.ok
  /\ rules = last.pre
  /\ last.res.state.turn # rules.turn

E2E4_RECORD ==
  << "r", "n", "b", "q", "k", "b", "n", "r", "/", "p", "p", "p", "p", "p", "p", "p",
     "p", "/", "8", "/", "8", "/", "4", "P", "3", "/", "8", "/", "P", "P", "P", "P",
     "1", "P", "P", "P", "/", "R", "N", "B", "Q", "K", "B", "N", "R", " ", "b", " ",
     "K", "Q", "k", "q", " ", "e", "3", " ", "0", " ", "1" >>

OpeningE2E4 ==
  /\ Called
  /\ last.pre = StartPosition
  /\ last.arg.from = << "e", "2" >> /\ last.arg.to = << "e", "4" >>

(* C9: from the initial position move(e2, e4) succeeds with the record     *)
(* rnbqkbnr/pppppppp/8/8/4P3/8/PPPP1PPP/RNBQKBNR b KQkq e3 0 1: black to   *)
(* move, castling unchanged, en-passant target e3, halfmove clock 0,       *)
(* fullmove number 1.                                                      *)
C9_OpeningRecord ==
  OpeningE2E4 =>
    /\ last.res.ok
    /\ last.res.fen = E2E4_RECORD
    /\ last.res.state.turn = << "b" >>
    /\ last.res.state.castling = last.pre.castling
    /\ last.res.state.ep = << "e", "3" >>
    /\ last.res.state.halfmove = 0
    /\ last.res.state.fullmove = 1

(* e2-e4 was asked of the engine in the initial position, and accepted. *)
C9_Witness == OpeningE2E4 /\ last.op = "rules.move" /\ last.res.ok

(* The square s of the position st is empty or holds a piece of the side   *)
(* not to move.                                                            *)
OffTurn(st, s) ==
  pieceAt(st, s) = Null \/ ColourOf(pieceAt(st, s)) # st.turn

(* C10: in every position reached, movesFrom(s) returns the empty list     *)
(* for every square s that is empty or holds a piece of the side not to    *)
(* move.  (A rejected call leaves the position as it was when reached.)    *)
C10_NoMovesOffTurn ==
  Arrived =>
    \A s \in Squares :
      OffTurn(rules, s) => movesFrom(rules, s) = [threw |-> FALSE, list |-> << >>]

(* Black to move after white castled: the white king on g1, which has     *)
(* squares to go to, and the empty square f3 are both given no moves.      *)
C10_Witness ==
  /\ Succeeded
  /\ rules.turn = << "b" >>
  /\ pieceAt(rules, << "g", "1" >>) = "K"
  /\ pieceAt(rules, << "h", "1" >>) = Null
  /\ movesFrom(rules, << "g", "1" >>).list = << >>
  /\ movesFrom(rules, << "f", "3" >>).list = << >>

(* The pawns of the side to move in the position st. *)
PawnsToMove(st) ==
  {s \in Squares : pieceAt(st, s) = (IF st.turn = << "w" >> THEN "P" ELSE "p")}

(* The same-file candidates among ms, for a piece on the square s. *)
SameFile(ms, s) == {i \in 1..Len(ms) : ms[i].to[1] = s[1]}

Pushes(st, s) == Cardinality(SameFile(movesFrom(st, s).list, s))

(* The pawn on s stands on its side's starting rank with the two squares   *)
(* ahead of it empty.                                                      *)
FreshPawn(st, s) ==
  LET fr  == sqToFR(s)
      dir == IF st.turn = << "w" >> THEN 1 ELSE 0 - 1
  IN  /\ fr.r = (IF st.turn = << "w" >> THEN 1 ELSE 6)
      /\ st.board[fr.r + dir][fr.f] = Null
      /\ st.board[fr.r + 2 * dir][fr.f] = Null

OffStartRank(st, s) == sqToFR(s).r # (IF st.turn = << "w" >> THEN 1 ELSE 6)

(* C11: in every position reached, a pawn of the side to move on its       *)
(* starting rank with the two squares ahead empty has exactly 2 same-file  *)
(* pushes, and one that has left its starting rank has at most 1; in the   *)
(* initial position each of the eight pawns to move has exactly 2.         *)
C11_PawnPushes ==
  Arrived =>
    /\ \A s \in PawnsToMove(rules) :
         /\ FreshPawn(rules, s) => Pushes(rules, s) = 2
         /\ OffStartRank(rules, s) => Pushes(rules, s) <= 1
    /\ rules = StartPosition =>
         /\ Cardinality(PawnsToMove(rules)) = 8
         /\ \A s \in PawnsToMove(rules) : Pushes(rules, s) = 2

(* White to move with its h-pawn on h4, two empty squares ahead of it and  *)
(* one push, and the e-pawn still on e2 with two.                          *)
C11_Witness ==
  /\ Succeeded
  /\ rules.turn = << "w" >>
  /\ pieceAt(rules, << "h", "4" >>) = "P"
  /\ pieceAt(rules, << "h", "5" >>) = Null
  /\ pieceAt(rules, << "h", "6" >>) = Null
  /\ Pushes(rules, << "h", "4" >>) = 1
  /\ Pushes(rules, << "e", "2" >>) = 2

(* The piece of the kind asked for (a lowercase letter), in white's or in  *)
(* black's colour.                                                         *)
WHITE_KIND == [q |-> "Q", r |-> "R", b |-> "B", n |-> "N"]

PromotionKind == IF last.arg.promotion = Undefined THEN "q" ELSE last.arg.promotion

PromotedPiece == IF MoverIsWhite THEN WHITE_KIND[PromotionKind] ELSE PromotionKind

LandsOnFarthest == MovedPawn /\ To.r = (IF MoverIsWhite THEN 7 ELSE 0)

(* C14: after a successful pawn move the destination holds, when it is on  *)
(* the farthest rank, the piece of the kind asked for (a queen when none   *)
(* is) in the mover's colour, and otherwise the pawn.                      *)
C14_Promotion ==
  Succeeded /\ MovedPawn =>
    IF LandsOnFarthest
      THEN /\ last.res.state.board[To.r][To.f] = PromotedPiece
           /\ last.res.state.board[To.r][To.f] \notin {"P", "p"}
      ELSE last.res.state.board[To.r][To.f] = MovedPiece

(* The engine was asked h7xg8 with no promotion kind, and put a white      *)
(* queen on g8.                                                            *)
C14_Witness ==
  /\ Succeeded
  /\ LandsOnFarthest
  /\ last.arg.promotion = Undefined
  /\ last.res.state.board[To.r][To.f] = "Q"

(* C15: after a successful move the fullmove number is the previous one    *)
(* plus 1 when black moved, and the previous one when white moved.         *)
C15_FullmoveNumber ==
  Succeeded =>
    last.res.state.fullmove = last.pre.fullmove + (IF MoverIsWhite THEN 0 ELSE 1)

(* Black moved, and the number grew by one. *)
C15_Witness ==
  /\ Succeeded
  /\ ~MoverIsWhite
  /\ last.pre.fullmove = 2
  /\ last.res.state.fullmove = 3

EnPassantApplied ==
  /\ Succeeded
  /\ truthyProp(findTo(movesFrom(last.pre, last.arg.from).list, last.arg.to), "ep")

(* The square one rank behind the destination, for the mover. *)
BehindTo == [f |-> To.f, r |-> IF MoverIsWhite THEN To.r - 1 ELSE To.r + 1]

(* C20: when an en-passant candidate is applied, the destination was       *)
(* empty and the square behind it held an enemy pawn; afterwards that      *)
(* square is empty and the mover's pawn stands on the destination.         *)
C20_EnPassantCapture ==
  EnPassantApplied =>
    /\ MovedPawn
    /\ TargetPiece = Null
    /\ last.pre.board[BehindTo.r][BehindTo.f] = (IF MoverIsWhite THEN "p" ELSE "P")
    /\ last.res.state.board[BehindTo.r][BehindTo.f] = Null
    /\ last.res.state.board[To.r][To.f] = MovedPiece
    /\ last.res.state.board[From.r][From.f] = Null

(* h5xg6 en passant was played: the black pawn has gone from g5. *)
C20_Witness ==
  /\ EnPassantApplied
  /\ last.arg.from = << "h", "5" >> /\ last.arg.to = << "g", "6" >>
  /\ last.pre.board[4][6] = "p"
  /\ last.res.state.board[4][6] = Null

(* The latest operation was a call of board.move; the only event it        *)
(* emitted, when it emitted one.                                           *)
BoardMoveCalled == call.op = "board.move"

OnlyEvent == call.events[1]

(* C12: every call of board.move emits exactly one event.  Returning true, *)
(* it emits "move" with its from and to and the record the move produced,  *)
(* which getPosition() then returns; returning false, it emits "illegal"   *)
(* with its from and to and the engine's reason (empty, turn or illegal),  *)
(* and the board and the engine hold the position they held before.        *)
C12_OneEvent ==
  BoardMoveCalled =>
    /\ Len(call.events) = 1
    /\ call.ret \in {"true", "false"}
    /\ OnlyEvent.payload.from = call.args.from
    /\ OnlyEvent.payload.to = call.args.to
    /\ call.ret = "true" =>
         /\ last.res.ok
         /\ OnlyEvent.type = "move"
         /\ OnlyEvent.payload.fen = last.res.fen
         /\ OnlyEvent.payload.fen = boardToFEN(state)
    /\ call.ret = "false" =>
         /\ ~last.res.ok
         /\ OnlyEvent.type = "illegal"
         /\ OnlyEvent.payload.reason = last.res.reason
         /\ OnlyEvent.payload.reason \in {"empty", "turn", "illegal"}
         /\ state = call.before
         /\ rules = last.pre

(* board.move was rejected for moving out of turn, and said so. *)
C12_Witness ==
  /\ BoardMoveCalled
  /\ call.ret = "false"
  /\ Len(call.events) = 1
  /\ OnlyEvent.type = "illegal"
  /\ OnlyEvent.payload.reason = "turn"

(* C13: the browser never holds more than one frame callback, and the one  *)
(* it holds belongs to the latest transition started: starting a           *)
(* transition cancels the callback of the one before.  A callback that     *)
(* runs was therefore the only one held, and the latest transition's.      *)
C13_OneTransition ==
  /\ Cardinality(frames) <= 1
  /\ \A fr \in frames : fr.anim = animSeq
  /\ call.op = "frame" => call.pending = {call.args.frame}

(* A move, a drop or a load began while a callback was held and started a  *)
(* transition: the callback held now is the new transition's, the earlier  *)
(* one is gone.                                                            *)
C13_Witness ==
  /\ call.op \in {"board.move", "pointerup", "setPosition"}
  /\ call.pending # {}
  /\ frames # {}
  /\ frames \cap call.pending = {}
  /\ \A fr \in frames : \A old \in call.pending : fr.anim > old.anim

(***************************************************************************)
(* Position loads                                                          *)
(***************************************************************************)

(* The endgame record with a rank of seven files: 4k3/4p3/8/8/8/8/4P2/4K3  *)
SHORT_RANK_FEN ==
  << "4", "k", "3", "/", "4", "p", "3", "/", "8", "/", "8", "/", "8", "/", "8", "/",
     "4", "P", "2", "/", "4", "K", "3", " ", "b", " ", "-", " ", "-", " ", "3", " ",
     "2", "0" >>

(* with a rank of nine files: 4k3/4p3/8/8/8/8/4P3/4K3R *)
LONG_RANK_FEN ==
  << "4", "k", "3", "/", "4", "p", "3", "/", "8", "/", "8", "/", "8", "/", "8", "/",
     "4", "P", "3", "/", "4", "K", "3", "R", " ", "b", " ", "-", " ", "-", " ", "3",
     " ", "2", "0" >>

(* with a letter that names no piece: 4k3/4x3/8/8/8/8/4P3/4K3 *)
UNKNOWN_LETTER_FEN ==
  << "4", "k", "3", "/", "4", "x", "3", "/", "8", "/", "8", "/", "8", "/", "8", "/",
     "4", "P", "3", "/", "4", "K", "3", " ", "b", " ", "-", " ", "-", " ", "3", " ",
     "2", "0" >>

(* with seven ranks only: 4k3/4p3/8/8/8/4P3/4K3 *)
FEW_RANKS_FEN ==
  << "4", "k", "3", "/", "4", "p", "3", "/", "8", "/", "8", "/", "8", "/",
     "4", "P", "3", "/", "4", "K", "3", " ", "b", " ", "-", " ", "-", " ", "3", " ",
     "2", "0" >>

(* with a rank written as the digit 9: 4k3/4p3/9/8/8/8/4P3/4K3 *)
NINE_FEN ==
  << "4", "k", "3", "/", "4", "p", "3", "/", "9", "/", "8", "/", "8", "/", "8", "/",
     "4", "P", "3", "/", "4", "K", "3", " ", "b", " ", "-", " ", "-", " ", "3", " ",
     "2", "0" >>

WELL_FORMED_RECORDS == { START_FEN, ENDGAME_FEN, E2E4_RECORD }

LOAD_RECORDS ==
  WELL_FORMED_RECORDS
    \cup { SHORT_RANK_FEN, LONG_RANK_FEN, UNKNOWN_LETTER_FEN, NINE_FEN, FEW_RANKS_FEN }

LoadNext ==
  \/ \E fen \in LOAD_RECORDS, immediate \in BOOLEAN : SetPosition(fen, immediate)
  \/ \E fr \in frames, done \in BOOLEAN : Frame(fr, done)

LoadSpec == Init /\ [][LoadNext]_vars

SetPositionCalled == call.op = "setPosition"

(* C16: setPosition with a well-formed record returns with the board and   *)
(* the engine both holding the record's position (getPosition() and the    *)
(* engine's getFEN() return the record), having emitted one event,         *)
(* "update", whose record is getPosition().                                *)
C16_Load ==
  SetPositionCalled /\ call.args.fen \in WELL_FORMED_RECORDS =>
    /\ call.ret # "threw"
    /\ boardToFEN(state) = call.args.fen
    /\ boardToFEN(rules) = call.args.fen
    /\ state = rules
    /\ Len(call.events) = 1
    /\ OnlyEvent.type = "update"
    /\ OnlyEvent.payload.fen = boardToFEN(state)

(* The position after 1. e4 was loaded over another position. *)
C16_Witness ==
  /\ SetPositionCalled
  /\ call.args.fen = E2E4_RECORD
  /\ call.before # state
  /\ boardToFEN(state) = E2E4_RECORD
  /\ Len(call.events) = 1

PIECE_LETTERS == {"k", "q", "r", "b", "n", "p", "K", "Q", "R", "B", "N", "P"}

(* The number of files a rank's text describes, from its position i on. *)
RECURSIVE RankWidth(_, _)
RankWidth(text, i) ==
  IF i > Len(text) THEN 0
  ELSE (IF includes(DIGITS, text[i]) THEN indexOf(DIGITS, text[i]) ELSE 1)
         + RankWidth(text, i + 1)

Placement(fen) == split(splitBlanks(trim(fen))[1], "/")

(* A rank of the record's placement field does not describe 8 files, or    *)
(* holds a letter that names no piece.                                     *)
Malformed(fen) ==
  \E i \in 1..Len(Placement(fen)) :
    \/ RankWidth(Placement(fen)[i], 1) # 8
    \/ \E j \in 1..Len(Placement(fen)[i]) :
         /\ ~includes(DIGITS, Placement(fen)[i][j])
         /\ Placement(fen)[i][j] \notin PIECE_LETTERS

(* C17: a record with a rank that does not describe 8 files, or with a     *)
(* letter that names no piece, is rejected: parseFEN throws and gives no   *)
(* position, so that setPosition fails and loads nothing.                  *)
C17_Rejects ==
  SetPositionCalled /\ Malformed(call.args.fen) =>
    /\ parseFENThrows(call.args.fen)
    /\ call.ret = "threw"
    /\ state = call.before

(***************************************************************************)
(* A king's walk off the e-file                                            *)
(***************************************************************************)

(* White clears d2, f2 and g2 and steps its king to d2, rights untouched;  *)
(* Black's knight goes out and back.                                       *)
WALK_INPUTS ==
  { input(<< "d", "2" >>, << "d", "3" >>, Undefined),
    input(<< "f", "2" >>, << "f", "3" >>, Undefined),
    input(<< "g", "2" >>, << "g", "3" >>, Undefined),
    input(<< "e", "1" >>, << "d", "2" >>, Undefined),
    input(<< "d", "2" >>, << "g", "2" >>, Undefined),
    input(<< "b", "8" >>, << "c", "6" >>, Undefined),
    input(<< "c", "6" >>, << "b", "8" >>, Undefined) }

WalkNext == \E in \in WALK_INPUTS : BoardMove(in)

WalkSpec == Init /\ [][WalkNext]_vars

(* The castling candidates movesFrom returns from the square s. *)
CastleCandidates(ms) ==
  {ms[i] : i \in {j \in 1..Len(ms) : "castle" \in DOMAIN ms[j]}}

(* The squares strictly between the files a and b of the rank r are empty. *)
EmptyBetween(st, a, b, r) ==
  \A f \in 0..7 : (a < f /\ f < b) \/ (b < f /\ f < a) => st.board[r][f] = Null

(* The flag of the candidate's side and wing. *)
FlagOf(st, m) ==
  IF st.turn = << "w" >> THEN m.castle ELSE toLowerCase(m.castle)

(* C18: every castling candidate movesFrom returns for a king has its      *)
(* rights flag held and only empty squares strictly between the king's     *)
(* square and the corner of its rank on that wing.                         *)
C18_CastleCandidates ==
  \A s \in Squares :
    pieceAt(rules, s) \in {"K", "k"} =>
      \A m \in CastleCandidates(movesFrom(rules, s).list) :
        /\ FlagOf(rules, m) \in Flags(rules.castling)
        /\ EmptyBetween(rules, sqToFR(s).f, IF m.castle = "K" THEN 7 ELSE 0, sqToFR(s).r)


(* The directions a bishop, rook or queen slides in. *)
DirectionsOf(p) ==
  IF p \in {"B", "b"} THEN {<<1, 1>>, <<-1, 1>>, <<1, -1>>, <<-1, -1>>}
  ELSE IF p \in {"R", "r"} THEN {<<1, 0>>, <<-1, 0>>, <<0, 1>>, <<0, -1>>}
  ELSE IF p \in {"Q", "q"}
    THEN {<<1, 1>>, <<-1, 1>>, <<1, -1>>, <<-1, -1>>, <<1, 0>>, <<-1, 0>>, <<0, 1>>, <<0, -1>>}
  ELSE {}

Sliders == {"B", "b", "R", "r", "Q", "q"}

(* The squares holding a slider of the side to move. *)
SlidersToMove ==
  {s \in Squares : pieceAt(rules, s) \in Sliders /\ ColourOf(pieceAt(rules, s)) = rules.turn}

(* The square k steps from (f, r) in the direction d is on the board. *)
Reaches(f, r, d, k) == (f + k * d[1]) \in 0..7 /\ (r + k * d[2]) \in 0..7

(* The square k steps from (f, r) in the direction d can be slid to: the   *)
(* squares before it are empty and it is empty or holds an enemy piece.    *)
Slides(st, p, f, r, d, k) ==
  /\ \A j \in 1..(k - 1) : st.board[r + j * d[2]][f + j * d[1]] = Null
  /\ \/ st.board[r + k * d[2]][f + k * d[1]] = Null
     \/ ColourOf(st.board[r + k * d[2]][f + k * d[1]]) # ColourOf(p)

(* The slider p on (f, r), with destinations dests, has exactly the        *)
(* squares it can slide to.                                                *)
SlidesExactly(st, p, f, r, dests) ==
  /\ \A d \in DirectionsOf(p) : \A k \in 1..7 :
       Reaches(f, r, d, k) =>
         (sq(f + k * d[1], r + k * d[2]) \in dests <=> Slides(st, p, f, r, d, k))
  /\ \A t \in dests : \E d \in DirectionsOf(p) : \E k \in 1..7 :
       Reaches(f, r, d, k) /\ t = sq(f + k * d[1], r + k * d[2])

(* C22: for a bishop, rook or queen of the side to move, movesFrom holds a *)
(* square along one of the piece's directions exactly when every square    *)
(* strictly between is empty and the square is empty or enemy-occupied; it *)
(* holds no other square.                                                  *)
C22_Rays ==
  \A s \in SlidersToMove :
    SlidesExactly(rules, pieceAt(rules, s), sqToFR(s).f, sqToFR(s).r, Destinations(rules, s))

(* The rook on h3 looks up the open h-file at the pawn on h7, the rook on  *)
(* h8 behind it.                                                           *)
C22_Witness ==
  /\ rules.turn = << "w" >>
  /\ pieceAt(rules, << "h", "3" >>) = "R"
  /\ \A r \in 3..5 : rules.board[r][7] = Null
  /\ rules.board[6][7] = "p"
  /\ rules.board[7][7] = "r"
  /\ << "h", "7" >> \in Destinations(rules, << "h", "3" >>)


(* The candidates movesFrom returns from every square of the position. *)
CandidatesFrom(s) == movesFrom(rules, s).list

(* The candidate lands on the board, not on a piece of the mover's colour. *)
LandsFairly(st, s, m) ==
  /\ m.to \in Squares
  /\ \/ pieceAt(st, m.to) = Null
     \/ ColourOf(pieceAt(st, m.to)) # ColourOf(pieceAt(st, s))

AllLandFairly(st, s, ms) == \A i \in 1..Len(ms) : LandsFairly(st, s, ms[i])

(* C23: in every position reached, every candidate of movesFrom, from any  *)
(* square, has its destination on the board and not on a piece of the      *)
(* mover's own colour.                                                     *)
C23_NoOwnCapture ==
  \A s \in Squares : AllLandFairly(rules, s, CandidatesFrom(s))

(* The white king on e1 may step to the empty f1, not onto its queen on d1 *)
(* or its knight on e2, and may castle.                                    *)
C23_Witness ==
  /\ rules.turn = << "w" >>
  /\ pieceAt(rules, << "e", "1" >>) = "K"
  /\ pieceAt(rules, << "d", "1" >>) = "Q"
  /\ pieceAt(rules, << "e", "2" >>) = "N"
  /\ Destinations(rules, << "e", "1" >>) = { << "f", "1" >>, << "g", "1" >> }

(* The pawns of the side to move. *)
PawnSquares ==
  {s \in Squares : pieceAt(rules, s) \in {"P", "p"} /\ ColourOf(pieceAt(rules, s)) = rules.turn}

(* The pawn candidate m from s obeys the pawn's rule: straight on over      *)
(* empty squares only, diagonally (en passant aside) onto an enemy only.   *)
PawnCandidateFair(st, s, m) ==
  LET a == sqToFR(s)
      b == sqToFR(m.to)
  IN  /\ b.f = a.f =>
          /\ st.board[b.r][b.f] = Null
          /\ (b.r - a.r = 2 => st.board[a.r + 1][a.f] = Null)
          /\ (a.r - b.r = 2 => st.board[a.r - 1][a.f] = Null)
      /\ b.f # a.f /\ ~truthyProp(m, "ep") =>
          /\ st.board[b.r][b.f] # Null
          /\ ColourOf(st.board[b.r][b.f]) # ColourOf(pieceAt(st, s))

AllPawnCandidatesFair(st, s, ms) ==
  \A i \in 1..Len(ms) : PawnCandidateFair(st, s, ms[i])

(* C24: every same-file candidate of a pawn lands on an empty square, a    *)
(* two-square push having skipped an empty square, and every diagonal      *)
(* candidate that is not an en-passant capture lands on an enemy piece.    *)
C24_PawnCandidates ==
  \A s \in PawnSquares : AllPawnCandidatesFair(rules, s, CandidatesFrom(s))

(* The pawn on d2 stands behind the bishop on d3 with d4 empty and has no  *)
(* candidate, while the pawn on g6 may take on h7.                         *)
C24_Witness ==
  /\ rules.turn = << "w" >>
  /\ pieceAt(rules, << "d", "2" >>) = "P"
  /\ pieceAt(rules, << "d", "3" >>) = "B"
  /\ pieceAt(rules, << "d", "4" >>) = Null
  /\ Destinations(rules, << "d", "2" >>) = {}
  /\ pieceAt(rules, << "g", "6" >>) = "P"
  /\ << "h", "7" >> \in Destinations(rules, << "g", "6" >>)


Opposite(turn) == IF turn = << "w" >> THEN << "b" >> ELSE << "w" >>

(* C25: a successful move is made by the side to move and leaves the other *)
(* side to move, in the position it returns and, for a move made through   *)
(* the board, in the engine; a rejected move leaves the side to move as it *)
(* was.  The movers of successive successful moves therefore alternate.    *)
C25_Alternation ==
  /\ Succeeded =>
       /\ ColourOf(MovedPiece) = last.pre.turn
       /\ last.res.state.turn = Opposite(last.pre.turn)
       /\ parseFEN(last.res.fen).turn = Opposite(last.pre.turn)
       /\ last.op = "board.move" => rules.turn = Opposite(last.pre.turn)
  /\ Called /\ ~last.res.ok => rules.turn = last.pre.turn

(* Black has just made the fourth move of a game: white, black, white,     *)
(* black.                                                                  *)
C25_Witness ==
  /\ Succeeded
  /\ last.op = "board.move"
  /\ last.pre.turn = << "b" >>
  /\ rules.turn = << "w" >>
  /\ plies(last.pre) = 3
  /\ plies(rules) = 4


(* No pawn stands on the first or the eighth rank of the position. *)
NoPawnOnEdge(st) ==
  \A f \in 0..7 : st.board[0][f] \notin {"P", "p"} /\ st.board[7][f] \notin {"P", "p"}

(* The promotion kinds asked in the moves made. *)
PromotionKinds == {"q", "r", "b", "n"}

(* C29: in every position reached by moves whose promotion kind is one of  *)
(* q, r, b, n or is left out, no pawn stands on rank 1 or rank 8, and      *)
(* movesFrom throws from no square.                                        *)
C29_NoPawnOnEdge ==
  /\ NoPawnOnEdge(rules)
  /\ Succeeded =>
       /\ falsy(last.arg.promotion) \/ last.arg.promotion \in PromotionKinds
       /\ NoPawnOnEdge(last.res.state)
  /\ \A s \in PawnSquares : ~movesFrom(rules, s).threw

(* A pawn has just reached g8 through the board and the engine holds a     *)
(* knight there.                                                           *)
C29_Witness ==
  /\ Succeeded
  /\ last.op = "board.move"
  /\ MovedPiece = "P"
  /\ To.r = 7
  /\ last.arg.promotion = "n"
  /\ pieceAt(rules, last.arg.to) = "N"
  /\ NoPawnOnEdge(rules)

(* The number of pieces of the colour c in the position. *)
Count(st, c) ==
  Cardinality({x \in (0..7) \X (0..7) :
                 st.board[x[1]][x[2]] # Null /\ ColourOf(st.board[x[1]][x[2]]) = c})

(* C30: a successful move onto an enemy piece, or capturing en passant,    *)
(* leaves the enemy one piece fewer and the mover as many; every other     *)
(* successful move leaves each colour as many pieces as it had.            *)
C30_PieceCount ==
  Succeeded =>
    /\ Count(last.res.state, last.pre.turn) = Count(last.pre, last.pre.turn)
    /\ Count(last.res.state, Opposite(last.pre.turn))
         = Count(last.pre, Opposite(last.pre.turn)) - (IF Capture THEN 1 ELSE 0)
    /\ last.op = "board.move" =>
         Count(rules, << "w" >>) + Count(rules, << "b" >>)
           <= Count(last.pre, << "w" >>) + Count(last.pre, << "b" >>)

(* The pawn that took en passant and then on h7 takes the knight on g8 and *)
(* is promoted: Black is left with 13 pieces, White keeps 16.              *)
C30_Witness ==
  /\ Succeeded
  /\ last.op = "board.move"
  /\ MovedPiece = "P" /\ To.r = 7 /\ TargetPiece = "n"
  /\ Count(last.pre, << "b" >>) = 14
  /\ Count(rules, << "b" >>) = 13
  /\ Count(rules, << "w" >>) = 16


(* The squares that hold the symbol p in `after` and did not in `before`. *)
Fresh(before, after, p) ==
  {t \in Squares : pieceAt(after, t) = p /\ pieceAt(before, t) # p}

(* The place of a square in row-major order: rank 1 to 8, file a to h. *)
RowMajor(t) == 8 * sqToFR(t).r + sqToFR(t).f

(* The squares whose piece in `before` is not there in `after` and shows   *)
(* up on a fresh square of `after`.                                        *)
Origins(before, after) ==
  {o \in Squares : /\ pieceAt(before, o) # Null
                   /\ pieceAt(after, o) # pieceAt(before, o)
                   /\ Fresh(before, after, pieceAt(before, o)) # {}}

(* The mapping m is the Diff Matcher's for (before, after). *)
Matches(before, after, m) ==
  /\ DOMAIN m = Origins(before, after)
  /\ \A o \in DOMAIN m :
       /\ m[o] \in Fresh(before, after, pieceAt(before, o))
       /\ \A t \in Fresh(before, after, pieceAt(before, o)) : RowMajor(m[o]) <= RowMajor(t)
       /\ pieceAt(after, m[o]) = pieceAt(before, o)
       /\ pieceAt(before, m[o]) # pieceAt(before, o)

(* C21: the mapping built for a transition from `before` to `after` has an *)
(* entry o -> d exactly when `before` holds at o a piece that `after` does *)
(* not hold at o and some square of `after` holds that symbol without      *)
(* having held it in `before`; d is the first such square in row-major     *)
(* order, so after[d] = before[o] and before[d] differs from before[o].    *)
C21_DiffMatcher ==
  call.op # "none" =>
    \A i \in 1..Len(call.transitions) :
      /\ call.transitions[i].start = call.before
      /\ call.transitions[i].end = state
      /\ Matches(call.before, state, call.transitions[i].movingMap)

(* The position after 1. e4 was loaded over the endgame: the pawn of e2 is *)
(* sent to a2, the first of the eight squares that newly hold a white      *)
(* pawn, and nothing else moves.                                           *)
C21_Witness ==
  /\ SetPositionCalled
  /\ call.args.fen = E2E4_RECORD
  /\ boardToFEN(call.before) = ENDGAME_FEN
  /\ Len(call.transitions) = 1
  /\ DOMAIN call.transitions[1].movingMap = { << "e", "2" >> }
  /\ call.transitions[1].movingMap[<< "e", "2" >>] = << "a", "2" >>
  /\ Cardinality(Fresh(call.before, state, "P")) = 8


(* The latest operation released a drag of the piece on call.args.from.from *)
(* over another square, the piece not being of the side to move.           *)
OffTurnDrop ==
  /\ call.op = "pointerup"
  /\ call.args.from # NoObject
  /\ call.args.drop # NoSquare
  /\ call.args.drop # call.args.from.from
  /\ pieceAt(call.before, call.args.from.from) # Null
  /\ ColourOf(pieceAt(call.before, call.args.from.from)) # call.before.turn

(* C26: releasing a drag of a piece that is not of the side to move over   *)
(* another square records (from, to) as the pending premove and nothing    *)
(* else: the position shown is unchanged, rules.move is not called, no     *)
(* event is emitted and no transition starts.                              *)
C26_PremoveRecorded ==
  OffTurnDrop =>
    /\ premove = [from |-> call.args.from.from, to |-> call.args.drop]
    /\ state = call.before
    /\ boardToFEN(rules) = boardToFEN(call.before)
    /\ call.engineCalls = 0
    /\ call.events = << >>
    /\ call.transitions = << >>
    /\ frames = call.pending
    /\ dragging = NoObject

(* In the start position the black pawn of e7 was dragged to e5. *)
C26_Witness ==
  /\ OffTurnDrop
  /\ call.before.turn = << "w" >>
  /\ premove = [from |-> << "e", "7" >>, to |-> << "e", "5" >>]

(* C28: after any sequence of board.move, drops, premoves played and loads *)
(* of well-formed records, board.getPosition() equals rules.getFEN().      *)
C28_BoardMatchesEngine == boardToFEN(state) = boardToFEN(rules)

(* A frame closed a transition and played the pending premove: board and   *)
(* engine both hold the new position.                                      *)
C28_Witness ==
  /\ call.op = "frame"
  /\ call.engineCalls = 1
  /\ Len(call.events) = 1
  /\ OnlyEvent.type = "move"
  /\ state # call.before
  /\ boardToFEN(state) = OnlyEvent.payload.fen
  /\ boardToFEN(rules) = OnlyEvent.payload.fen


(* The step is a frame that completes its transition. *)
Completes == call'.op = "frame" /\ call'.args.done

(* What the completing frame does with the premove pending before it: it   *)
(* drops the premove of an empty origin without a move attempt, clears and *)
(* tries once through board.move the premove of the side to move, and      *)
(* leaves any other premove pending.                                       *)
PremoveHandled ==
  IF pieceAt(state, premove.from) = Null
    THEN /\ premove' = NoObject
         /\ call'.engineCalls = 0
         /\ call'.events = << >>
         /\ state' = state
  ELSE IF ColourOf(pieceAt(state, premove.from)) = state.turn
    THEN /\ premove' = NoObject
         /\ call'.engineCalls = 1
         /\ last'.op = "board.move"
         /\ last'.arg = input(premove.from, premove.to, "q")
         /\ last'.pre = rules
         /\ Len(call'.events) = 1
         /\ call'.events[1].type = (IF last'.res.ok THEN "move" ELSE "illegal")
         /\ call'.events[1].payload.from = premove.from
         /\ call'.events[1].payload.to = premove.to
  ELSE /\ premove' = premove
       /\ call'.engineCalls = 0
       /\ call'.events = << >>
       /\ state' = state

(* Right after a transition completes, a premove still pending is of a     *)
(* piece that is not of the side to move.                                  *)
PendingIsOffTurn ==
  premove' # NoObject =>
    /\ pieceAt(state', premove'.from) # Null
    /\ ColourOf(pieceAt(state', premove'.from)) # state'.turn

(* C27: when an animation completes with a premove pending, the premove of *)
(* an empty origin is dropped without a move attempt, the premove of the   *)
(* side to move is cleared and tried exactly once through board.move,      *)
(* accepted or rejected, and any other premove stays pending; so a premove *)
(* pending right after a completion is of the side that is not to move.    *)
C27_PremovePlayed ==
  [][Completes => (premove # NoObject => PremoveHandled) /\ PendingIsOffTurn]_vars

(* A completing frame tried the pending premove once and the engine        *)
(* rejected it: nothing is pending and the position is unchanged.          *)
C27_Witness ==
  /\ call.op = "frame"
  /\ call.args.done
  /\ call.engineCalls = 1
  /\ Len(call.events) = 1
  /\ OnlyEvent.type = "illegal"
  /\ premove = NoObject
  /\ state = call.before


(* The latest operation was a board.move that the engine accepted. *)
BoardMoveAccepted ==
  call.op = "board.move" /\ call.ret = "true" /\ last.op = "board.move" /\ Succeeded

Promoting == MovedPawn /\ To.r \in {0, 7}

(* The rook's corner and its square after castling, on the king's rank. *)
RookCorner == sq(IF To.f = 6 THEN 7 ELSE 0, From.r)
RookPost == sq(IF To.f = 6 THEN 5 ELSE 3, From.r)

(* The mapping sends o to d. *)
Maps(m, o, d) == o \in DOMAIN m /\ m[o] = d

(* C31: for a successful move from -> to that does not promote, the        *)
(* mapping built from the positions before and after it sends from to to,  *)
(* sends no other origin to to and, for a castling move, sends the rook's  *)
(* corner to the rook's square after castling.                             *)
C31_MoveMapped ==
  BoardMoveAccepted /\ ~Promoting =>
    /\ Len(call.transitions) = 1
    /\ call.transitions[1].start = last.pre
    /\ Maps(call.transitions[1].movingMap, last.arg.from, last.arg.to)
    /\ \A o \in DOMAIN call.transitions[1].movingMap :
         call.transitions[1].movingMap[o] = last.arg.to => o = last.arg.from
    /\ CastlingMove => Maps(call.transitions[1].movingMap, RookCorner, RookPost)


(* The step plays a premove: a completing frame calls board.move. *)
PlaysPremove == call'.op = "frame" /\ call'.engineCalls = 1

(* C32: a setPosition call that loads a position leaves no premove         *)
(* pending; a premove becomes pending only when a drag is released, and    *)
(* the premove a frame plays is the one pending when the frame runs.  A    *)
(* premove recorded before a load is therefore never played against the    *)
(* position loaded.                                                        *)
C32_PremoveDiesOnLoad ==
  [][/\ call'.op = "setPosition" /\ call'.ret # "threw" => premove' = NoObject
     /\ premove' # NoObject /\ premove' # premove => call'.op = "pointerup"
     /\ PlaysPremove =>
          /\ premove # NoObject
          /\ last'.arg = input(premove.from, premove.to, "q")
          /\ state = call'.before]_vars

(* A position was loaded, animated, while a premove was pending: none is   *)
(* pending now and the transition to the loaded position is about to run.  *)
C32_Witness ==
  /\ SetPositionCalled
  /\ call.ret # "threw"
  /\ ~call.args.immediate
  /\ call.premove # NoObject
  /\ premove = NoObject
  /\ frames # {}

=============================================================================
